---- MODULE Spec2Model ----
(***************************************************************************)
(* State-machine model of eth_account_analyzer.py: the transport           *)
(* (create_session / api_call), the file cache (cache_path, load_cache,    *)
(* save_cache), the three fetch operations, the thread-pool orchestrator   *)
(* (run_tasks), the aggregator (summarize_transactions), main and its      *)
(* outputs (print_summary, save_csv, save_json).                           *)
(*                                                                         *)
(* Python values are tagged records, so that values of different Python    *)
(* types can be compared.  ETH amounts (floats obtained by dividing an     *)
(* integer by WEI_PER_ETH) are kept as their integer numerator in wei.     *)
(* A text (an exception message, a log line) is the sequence of the        *)
(* pieces it is formatted from.                                            *)
(***************************************************************************)
EXTENDS Integers, Sequences, FiniteSets, TLC

VARIABLES
    apikey,     \* args.apikey: a string, or NoKey when neither argument nor env gives one
    address,    \* args.address
    count,      \* args.count
    now,        \* time.time()
    ticks,      \* how many times the clock has advanced
    runs,       \* how many process runs have started
    fs,         \* the cache storage: [dir |-> CACHE_DIR exists, writable |-> it can be written]
    cache,      \* the cache files: key -> NoFile or [mtime, content]
    pc,         \* position of main
    task,       \* the three pool tasks: name -> [pc, calls, result, r]
    wire,       \* the adapter's retry loop for the request in flight: [attempts, last, body]
    results,    \* run_tasks' results dict: name -> value, NotCollected before its entry is set
    log,        \* the texts logged through logging.error / logging.warning in this run
    acc,        \* summarize_transactions' locals: [i, received, sent]
    fetched,    \* history: the last list a remote transaction fetch returned and cached
    out,        \* what the run has put out: [summary, csv, json]
    peer        \* another process of the program, at its save_cache: [pc, data]

vars == << apikey, address, count, now, ticks, runs, fs, cache, pc, task, wire,
           results, log, acc, fetched, out, peer >>

----------------------------------------------------------------------------
(* Bounds of the model *)

MaxCount == 2       \* args.count ranges over 1..MaxCount
MaxTxs == 2         \* the remote source returns at most MaxTxs transactions
MaxTicks == 2       \* the clock advances at most MaxTicks times
MaxRuns == 2        \* the program is run at most MaxRuns times on the same cache
MaxLen == 2         \* summarize is applied to lists of at most MaxLen transactions

(* Config *)

RETRIES == 3
CACHE_TTL_SECONDS == 300
status_forcelist == {429, 500, 502, 503, 504}

----------------------------------------------------------------------------
(* Python values *)

PyNone == [t |-> "None"]
PyStr(s) == [t |-> "str", s |-> s]
PyInt(i) == [t |-> "int", i |-> i]
PyList(l) == [t |-> "list", l |-> l]
PyDict(d) == [t |-> "dict", d |-> d]
Absent == [t |-> "absent"]              \* a key a dict does not hold

NoKey == "<no key>"
SECRET == "K3Y"
Names == {"balance", "price", "txs"}
NotCollected == [t |-> "not collected"]
NoFile == [t |-> "no file"]
NoFetch == [t |-> "no fetch"]

Min(a, b) == IF a < b THEN a ELSE b

\* s[:n] for n >= 0
Take(s, n) == SubSeq(s, 1, Min(n, Len(s)))

\* str.lower() on the strings of the model
Lower(s) ==
    CASE s \in {"0xAB", "0xAb", "0xab"} -> "0xab"
      [] s \in {"0xCD", "0xcd"} -> "0xcd"
      [] OTHER -> s

Addresses == {"0xAB", "0xCD"}

----------------------------------------------------------------------------
(* Data utilities *)

Eth(n) == [t |-> "float", wei |-> n]     \* the float n / WEI_PER_ETH
Usd(p) == [t |-> "float", usd |-> p]

NumericStrings == {"0", "1", "2", "3"}

\* int(s) for a string of NumericStrings
IntOf(s) == CASE s = "0" -> 0 [] s = "1" -> 1 [] s = "2" -> 2 [] s = "3" -> 3

\* safe_int with a default of 1
safe_intDefaultOne(value) ==
    CASE value.t = "int" -> value.i
      [] value.t = "str" /\ value.s \in NumericStrings -> IntOf(value.s)
      [] OTHER -> 1

\* safe_int(value, default=0): int(value), the default on TypeError / ValueError
safe_int(value) ==
    CASE value.t = "int" -> value.i
      [] value.t = "str" /\ value.s \in NumericStrings -> IntOf(value.s)
      [] OTHER -> 0

\* wei_to_eth(value) = safe_int(value) / WEI_PER_ETH, as the numerator in wei
wei_to_eth(value) == safe_int(value)

\* dict.get(key) and dict.get(key, default) on a transaction record
Get(tx, key) == IF tx[key] = Absent THEN PyNone ELSE tx[key]
GetOr(tx, key, default) == IF tx[key] = Absent THEN default ELSE tx[key]

----------------------------------------------------------------------------
(* Outcomes of calls: a returned value or a raised exception with its text *)

Ok(v) == [out |-> "ok", val |-> v, exc |-> "", err |-> <<>>]
Raised(exc, text) == [out |-> "raised", val |-> PyNone, exc |-> exc, err |-> text]

\* whether a text holds the string s
Contains(text, s) == \E i \in 1..Len(text) : text[i] = s

----------------------------------------------------------------------------
(* Transport: create_session and api_call *)

NetErr == [k |-> "neterr"]                   \* connection error or timeout
Status(c) == [k |-> "status", code |-> c]    \* an HTTP response with status c
NoAttempt == [k |-> "none"]

StatusCodes == {200, 404} \cup status_forcelist
Outcomes == {NetErr} \cup {Status(c) : c \in StatusCodes}

\* Retry(total=RETRIES, status_forcelist=...): what the adapter retries on
Retryable(o) == o.k = "neterr" \/ (o.k = "status" /\ o.code \in status_forcelist)

\* RetryAgain with one retry too many
RetryAgainOffByOne(o, sent) == Retryable(o) /\ sent <= RETRIES + 1

\* whether the adapter sends the request again after the sent-th request ended in o
RetryAgain(o, sent) == Retryable(o) /\ sent <= RETRIES

\* the keyword arguments of the three api_call sites, in order
BalanceParams(addr, key) ==
    << <<"module", "account">>, <<"action", "balance">>, <<"address", addr>>,
       <<"tag", "latest">>, <<"apikey", key>> >>
PriceParams(key) ==
    << <<"module", "stats">>, <<"action", "ethprice">>, <<"apikey", key>> >>
TxsParams(addr, key) ==
    << <<"module", "account">>, <<"action", "txlist">>, <<"address", addr>>,
       <<"startblock", "0">>, <<"endblock", "99999999">>, <<"sort", "desc">>,
       <<"apikey", key>> >>

RECURSIVE ParamsText(_)
\* f"{params}": every key and every value of the dict
ParamsText(params) ==
    IF params = <<>> THEN <<>>
    ELSE <<Head(params)[1], Head(params)[2]>> \o ParamsText(Tail(params))

HttpFailureText(params) == <<"HTTP failure | params=">> \o ParamsText(params)

NoBody == [k |-> "nobody"]
Undecodable == [k |-> "undecodable"]         \* response.json() raises
NonDict == [k |-> "nondict"]                 \* valid JSON that is no object
Envelope(st, msg, res) == [k |-> "env", status |-> st, message |-> msg, result |-> res]

\* api_call without the test of the envelope's status
api_callAnyStatus(params, o, body) ==
    IF o.k = "neterr" \/ o.code >= 400 \/ body.k = "undecodable"
    THEN Raised("EtherscanError", HttpFailureText(params))
    ELSE IF body.k = "nondict"
    THEN Raised("AttributeError", <<"object has no attribute 'get'">>)
    ELSE Ok(IF body.result = Absent THEN PyNone ELSE body.result)

\* api_call, given the last outcome o of session.get and the body of its response
api_call(params, o, body) ==
    IF o.k = "neterr" \/ o.code >= 400 \/ body.k = "undecodable"
    THEN Raised("EtherscanError", HttpFailureText(params))
    ELSE IF body.k = "nondict"
    THEN Raised("AttributeError", <<"object has no attribute 'get'">>)
    ELSE IF body.status # PyStr("1")
    THEN Raised("EtherscanError",
                IF body.message = Absent THEN <<"Unknown API error">>
                ELSE <<body.message.s>>)
    ELSE Ok(IF body.result = Absent THEN PyNone ELSE body.result)

----------------------------------------------------------------------------
(* What the remote source can answer *)

Tx(to, from, value, ts) ==
    [to |-> to, from |-> from, value |-> value, timeStamp |-> ts]

\* the transactions the remote source serves in a run
TxPool ==
    { Tx(PyStr("0xAB"), PyStr("0xCD"), PyStr("2"), PyStr("1")),  \* from 0xCD to 0xAB
      Tx(PyStr("0xab"), PyStr("0xAB"), PyStr("3"), PyStr("2")),  \* from 0xAB to itself
      Tx(PyNone, PyStr("0xab"), PyStr("1"), PyStr("3")) }        \* "to": null

SeqsUpTo(S, n) == UNION { [1..k -> S] : k \in 0..n }

FailureEnvelopes ==
    { Envelope(PyStr("0"), PyStr("NOTOK"), PyStr("Max rate limit reached")),
      Envelope(PyStr("0"), Absent, Absent) }

BalanceBodies ==
    {Undecodable, NonDict} \cup FailureEnvelopes
    \cup { Envelope(PyStr("1"), PyStr("OK"), r) : r \in {PyStr("2"), PyStr("abc"), PyNone} }

PriceBodies ==
    {Undecodable, NonDict} \cup FailureEnvelopes
    \cup { Envelope(PyStr("1"), PyStr("OK"), r) :
             r \in { PyDict([ethusd |-> PyStr("3")]), PyDict([ethusd |-> PyStr("abc")]),
                     PyDict([ethbtc |-> PyStr("1")]), PyNone } }

TxsBodies ==
    {Undecodable, NonDict} \cup FailureEnvelopes
    \cup { Envelope(PyStr("1"), PyStr("OK"), r) :
             r \in {PyStr("Error!"), PyNone} \cup { PyList(l) : l \in SeqsUpTo(TxPool, MaxTxs) } }

Bodies(n) ==
    CASE n = "balance" -> BalanceBodies
      [] n = "price" -> PriceBodies
      [] n = "txs" -> TxsBodies

----------------------------------------------------------------------------
(* Cache utilities *)

File(mtime, content) == [t |-> "file", mtime |-> mtime, content |-> content]
Corrupt == [t |-> "corrupt"]                 \* bytes json.load cannot parse

\* the key get_recent_transactions builds: f"{address.lower()}_tx"
cache_key(addr) == <<Lower(addr), "_tx">>
CacheKeys == { cache_key(a) : a \in Addresses }

\* cache_path: CACHE_DIR.mkdir(exist_ok=True) raises when the directory is
\* missing and cannot be created
cache_path(f, key) ==
    IF f.dir \/ f.writable THEN Ok(PyStr(key[1])) ELSE Raised("OSError", <<"mkdir">>)

\* Expired with the comparison age >= TTL
ExpiredAtTtl(age) == age >= CACHE_TTL_SECONDS

\* the age beyond which load_cache ignores a file
Expired(age) == age > CACHE_TTL_SECONDS

\* load_cache(path) at time t
load_cache(file, t) ==
    IF file = NoFile THEN Ok(PyNone)
    ELSE IF Expired(t - file.mtime) THEN Ok(PyNone)
    ELSE IF file.content = Corrupt
    THEN Raised("CacheError", <<"Failed to load cache: ">>)
    ELSE Ok(file.content)

\* save_cache(path, data) at time t. how: "ok", the file is written; "partial",
\* the file is opened (truncated) and the dump fails; "closed", open fails.
\* Gives the file left behind and the warning logged.
save_cache(file, data, t, how, key) ==
    CASE how = "ok" -> [file |-> File(t, data), warn |-> {}]
      [] how = "partial" ->
            [file |-> File(t, Corrupt),
             warn |-> {<<"Cache write failed (", key[1], "): ", "OSError">>}]
      [] how = "closed" ->
            [file |-> file,
             warn |-> {<<"Cache write failed (", key[1], "): ", "PermissionError">>}]

\* the ways a write can go on storage f
WriteOutcomes(f) == IF f.writable THEN {"ok", "partial"} ELSE {"closed"}

----------------------------------------------------------------------------
(* API functions: what each does with the result of its api_call *)

\* get_eth_balance
get_eth_balance(r) == IF r.out = "raised" THEN r ELSE Ok(Eth(wei_to_eth(r.val)))

\* get_eth_price: float(result["ethusd"]), None on KeyError / TypeError / ValueError
get_eth_price(r) ==
    IF r.out = "raised" THEN r
    ELSE IF r.val.t # "dict" THEN Ok(PyNone)
    ELSE IF "ethusd" \notin DOMAIN r.val.d THEN Ok(PyNone)
    ELSE IF r.val.d["ethusd"].t = "str" /\ r.val.d["ethusd"].s \in NumericStrings
    THEN Ok(Usd(IntOf(r.val.d["ethusd"].s)))
    ELSE Ok(PyNone)

\* isinstance(x, list)
IsList(x) == x.t = "list"

\* get_recent_transactions, the cached branch: cached[:limit]
FromCache(cached, limit) == Ok(PyList(Take(cached.l, limit)))

\* what get_recent_transactions hands to save_cache
CachedData(result, limit) == result

\* ShouldCache without the isinstance test
ShouldCacheAnyResult(r) == r.out = "ok"

\* get_recent_transactions calls save_cache: api_call returned a list
ShouldCache(r) == r.out = "ok" /\ IsList(r.val)

\* get_recent_transactions, after the remote call
AfterRemote(r, limit) ==
    IF r.out = "raised" THEN r
    ELSE IF IsList(r.val) THEN Ok(PyList(Take(r.val.l, limit)))
    ELSE Ok(PyList(<<>>))

----------------------------------------------------------------------------
(* The state machine *)

NoResult == [out |-> "none", val |-> PyNone, exc |-> "", err |-> <<>>]

\* the local variable result of a fetch function before its api_call returns
NotReturned == [t |-> "not returned"]

\* result = api_call(...): the value bound to result, if api_call returns one
Returns(r) == IF r.out = "ok" THEN r.val ELSE NotReturned

\* a task: where it is, how many api_calls it has made, the result of its
\* api_call, what it ended with
TaskAt(p) == [pc |-> p, calls |-> 0, result |-> NotReturned, r |-> NoResult]
IdleTasks == [n \in Names |-> TaskAt("idle")]
\* the adapter: the requests sent, the last outcome, the body handed to api_call
NoWire == [attempts |-> 0, last |-> NoAttempt, body |-> NoBody]

\* an output the run has not produced
NotWritten == [t |-> "not written"]
NoOutput == [summary |-> NotWritten, csv |-> NotWritten, json |-> NotWritten]

\* the other process before its save_cache
NoPeer == [pc |-> "idle", data |-> PyNone]

\* where a task starts: get_recent_transactions at its cache lookup, the others
\* at their api_call
Entry(n) == IF n = "txs" THEN "cache" ELSE "http"

\* a file an earlier process, or anything else that writes there, has left
InitFiles ==
    { NoFile, File(0, Corrupt), File(0, PyDict(<<>>)),
      File(0, PyList(<<Tx(PyStr("0xab"), PyStr("0xAB"), PyStr("3"), PyStr("2"))>>)) }

Storages == [dir : BOOLEAN, writable : BOOLEAN]

\* the state at process start; only the file of the address given can hold
\* something, and a file implies its directory
InitArgs ==
    /\ address \in Addresses
    /\ count \in 1..MaxCount
    /\ now = 0
    /\ ticks = 0
    /\ runs = 1
    /\ fs \in Storages
    /\ cache \in [CacheKeys -> InitFiles]
    /\ \A k \in CacheKeys : cache[k] # NoFile => (fs.dir /\ k = cache_key(address))
    /\ pc = "start"
    /\ task = IdleTasks
    /\ wire = NoWire
    /\ results = [n \in Names |-> NotCollected]
    /\ log = {}
    /\ acc = [i |-> 0, received |-> 0, sent |-> 0]
    /\ fetched = NoFetch
    /\ out = NoOutput
    /\ peer = NoPeer

Init ==
    /\ apikey \in {SECRET, NoKey}
    /\ InitArgs

\* main, up to run_tasks' pool.submit calls: parser.error on a missing key,
\* else the three tasks are submitted
ParseArgs ==
    /\ pc = "start"
    /\ IF apikey = NoKey
       THEN /\ pc' = "config_error"
            /\ UNCHANGED task
       ELSE /\ pc' = "pool"
            /\ task' = [n \in Names |-> TaskAt("queued")]
    /\ UNCHANGED << apikey, address, count, now, ticks, runs, fs, cache, wire,
                    results, log, acc, fetched, out, peer >>

\* a pool worker takes task n.  (MAX_THREADS is at least 2; a task that waits
\* for a free worker is a task that starts late.)
Start(n) ==
    /\ task[n].pc = "queued"
    /\ task' = [task EXCEPT ![n].pc = Entry(n)]
    /\ UNCHANGED << apikey, address, count, now, ticks, runs, fs, cache, pc, wire,
                    results, log, acc, fetched, out, peer >>

Params(n) ==
    CASE n = "balance" -> BalanceParams(address, apikey)
      [] n = "price" -> PriceParams(apikey)
      [] n = "txs" -> TxsParams(address, apikey)

Done(n, r) == [task EXCEPT ![n].pc = "done", ![n].r = r]

\* get_recent_transactions up to the cache decision: cache_path, load_cache,
\* and the return of cached[:limit] when the cache holds a list
TxsLoadCache ==
    /\ task["txs"].pc = "cache"
    /\ LET key == cache_key(address)
           p == cache_path(fs, key)
           c == load_cache(cache[key], now)
       IN  /\ fs' = [fs EXCEPT !.dir = @ \/ fs.writable]
           /\ IF p.out = "raised" THEN task' = Done("txs", p)
              ELSE IF c.out = "raised" THEN task' = Done("txs", c)
              ELSE IF IsList(c.val) THEN task' = Done("txs", FromCache(c.val, count))
              ELSE task' = [task EXCEPT !["txs"].pc = "http"]
    /\ UNCHANGED << apikey, address, count, now, ticks, runs, cache, pc, wire,
                    results, log, acc, fetched, out, peer >>

\* the history kept of the transaction fetches that reached save_cache
Remember(how, key, ret) ==
    CASE how = "ok" -> [t |-> "fetch", key |-> key, limit |-> count, ret |-> ret]
      [] how = "partial" /\ fetched # NoFetch ->
            IF fetched.key = key THEN NoFetch ELSE fetched
      [] OTHER -> fetched

\* task n from the return of session.get (its last outcome o, the body of the
\* response) to the task's end: api_call, then the rest of the fetch function
Finish(n, o, body) ==
    LET r == api_call(Params(n), o, body)
        t == [task EXCEPT ![n].calls = @ + 1, ![n].result = Returns(r)]
    IN  CASE n = "balance" ->
               /\ task' = [t EXCEPT ![n].pc = "done", ![n].r = get_eth_balance(r)]
               /\ UNCHANGED << cache, log, fetched >>
          [] n = "price" ->
               /\ task' = [t EXCEPT ![n].pc = "done", ![n].r = get_eth_price(r)]
               /\ UNCHANGED << cache, log, fetched >>
          [] n = "txs" ->
               /\ task' = [t EXCEPT ![n].pc = "done", ![n].r = AfterRemote(r, count)]
               /\ IF ShouldCache(r)
                  THEN \E how \in WriteOutcomes(fs) :
                       LET key == cache_key(address)
                           w == save_cache(cache[key], CachedData(r.val, count),
                                           now, how, key)
                       IN  /\ cache' = [cache EXCEPT ![key] = w.file]
                           /\ log' = log \cup w.warn
                           /\ fetched' = Remember(how, key, AfterRemote(r, count).val.l)
                  ELSE UNCHANGED << cache, log, fetched >>

\* the bodies a response to task n's request can carry
BodiesOf(n, o) == IF o = Status(200) THEN Bodies(n) ELSE {NoBody}

\* api_call of task n and the rest of the task, session.get taken as one step:
\* whatever the adapter's retries were, it ends with some outcome
Fetch(n) ==
    /\ task[n].pc = "http"
    /\ \E o \in Outcomes : \E body \in BodiesOf(n, o) : Finish(n, o, body)
    /\ UNCHANGED << apikey, address, count, now, ticks, runs, fs, pc, wire, results,
                    acc, out, peer >>

\* session.get of task n, request by request: the adapter sends one request,
\* then sends again or hands the outcome to api_call
Send(n) ==
    /\ task[n].pc = "http"
    /\ \E o \in Outcomes :
         LET sent == wire.attempts + 1 IN
         IF RetryAgain(o, sent)
         THEN /\ wire' = [attempts |-> sent, last |-> o, body |-> NoBody]
              /\ UNCHANGED << task, cache, log, fetched >>
         ELSE \E body \in BodiesOf(n, o) :
                /\ wire' = [attempts |-> sent, last |-> o, body |-> body]
                /\ Finish(n, o, body)
    /\ UNCHANGED << apikey, address, count, now, ticks, runs, fs, pc, results, acc,
                    out, peer >>

\* the text logging.error writes for a failed task
TaskFailedText(n, err) == <<"Task '", n, "' failed: ">> \o err

\* what run_tasks stores for a finished future
Collected(r) == IF r.out = "raised" THEN PyNone ELSE r.val

\* Collect with a failure that resets the result set
CollectResetsOnFailure(n) ==
    /\ pc = "pool"
    /\ task[n].pc = "done"
    /\ results[n] = NotCollected
    /\ results' = IF task[n].r.out = "raised"
                  THEN [m \in Names |-> IF results[m] = NotCollected /\ m # n
                                        THEN NotCollected ELSE PyNone]
                  ELSE [results EXCEPT ![n] = Collected(task[n].r)]
    /\ log' = IF task[n].r.out = "raised"
              THEN log \cup {TaskFailedText(n, task[n].r.err)}
              ELSE log
    /\ UNCHANGED << apikey, address, count, now, ticks, runs, fs, cache, pc, task,
                    wire, acc, fetched, out, peer >>

\* run_tasks: one turn of the as_completed loop, for a future that is done
Collect(n) ==
    /\ pc = "pool"
    /\ task[n].pc = "done"
    /\ results[n] = NotCollected
    /\ results' = [results EXCEPT ![n] = Collected(task[n].r)]
    /\ log' = IF task[n].r.out = "raised"
              THEN log \cup {TaskFailedText(n, task[n].r.err)}
              ELSE log
    /\ UNCHANGED << apikey, address, count, now, ticks, runs, fs, cache, pc, task,
                    wire, acc, fetched, out, peer >>

\* AllCollected with a loop that stops at the first future
AnyCollected == \E n \in Names : results[n] # NotCollected

\* as_completed is exhausted when every future has been yielded
AllCollected == \A n \in Names : results[n] # NotCollected

\* run_tasks returns; main enters summarize_transactions
RunTasksReturn ==
    /\ pc = "pool"
    /\ AllCollected
    /\ pc' = "summarize"
    /\ acc' = [i |-> 1, received |-> 0, sent |-> 0]
    /\ UNCHANGED << apikey, address, count, now, ticks, runs, fs, cache, task, wire,
                    results, log, fetched, out, peer >>

----------------------------------------------------------------------------
(* Processing: summarize_transactions, and the rest of main *)

\* transactions = results.get("txs") or []
Transactions == IF results["txs"].t = "list" THEN results["txs"].l ELSE <<>>

\* x.lower() == addr for a value x that need not be a string
IsStr(x) == x.t = "str"
Matches(x, addr) == Lower(x.s) = Lower(addr)

\* SummarizeTx with "from" tested before "to"
SummarizeTxFromFirst(tx, addr, received, sent) ==
    LET value == wei_to_eth(Get(tx, "value"))
        to == GetOr(tx, "to", PyStr(""))
        from == GetOr(tx, "from", PyStr(""))
    IN  IF ~IsStr(from) THEN [out |-> "raised", received |-> received, sent |-> sent]
        ELSE IF Matches(from, addr)
        THEN [out |-> "ok", received |-> received, sent |-> sent + value]
        ELSE IF ~IsStr(to) THEN [out |-> "raised", received |-> received, sent |-> sent]
        ELSE IF Matches(to, addr)
        THEN [out |-> "ok", received |-> received + value, sent |-> sent]
        ELSE [out |-> "ok", received |-> received, sent |-> sent]

\* one turn of summarize_transactions' loop on tx: the new totals, or the
\* AttributeError of .lower() on a value that is no string
SummarizeTx(tx, addr, received, sent) ==
    LET value == wei_to_eth(Get(tx, "value"))
        to == GetOr(tx, "to", PyStr(""))
        from == GetOr(tx, "from", PyStr(""))
    IN  IF ~IsStr(to) THEN [out |-> "raised", received |-> received, sent |-> sent]
        ELSE IF Matches(to, addr)
        THEN [out |-> "ok", received |-> received + value, sent |-> sent]
        ELSE IF ~IsStr(from) THEN [out |-> "raised", received |-> received, sent |-> sent]
        ELSE IF Matches(from, addr)
        THEN [out |-> "ok", received |-> received, sent |-> sent + value]
        ELSE [out |-> "ok", received |-> received, sent |-> sent]

\* summarize_transactions: one turn of the loop.  An exception leaves main.
SummarizeStep ==
    /\ pc = "summarize"
    /\ acc.i <= Len(Transactions)
    /\ LET r == SummarizeTx(Transactions[acc.i], address, acc.received, acc.sent)
       IN  IF r.out = "raised"
           THEN /\ pc' = "crashed"
                /\ UNCHANGED acc
           ELSE /\ pc' = pc
                /\ acc' = [i |-> acc.i + 1, received |-> r.received, sent |-> r.sent]
    /\ UNCHANGED << apikey, address, count, now, ticks, runs, fs, cache, task, wire,
                    results, log, fetched, out, peer >>

\* summarize_transactions returns (received, sent)
SummarizeReturn ==
    /\ pc = "summarize"
    /\ acc.i > Len(Transactions)
    /\ pc' = "print"
    /\ UNCHANGED << apikey, address, count, now, ticks, runs, fs, cache, task, wire,
                    results, log, acc, fetched, out, peer >>

\* parse_utc(ts): the UTC time safe_int(ts) seconds after the epoch, in ISO
\* format; kept as the number of seconds
parse_utc(ts) == [t |-> "utc", sec |-> safe_int(ts)]

\* "balance or 0" and "price or 0", as the number that is formatted
BalanceOrZero(balance) == IF balance.t = "float" THEN balance.wei ELSE 0
PriceOrZero(price) == IF price.t = "float" THEN price.usd ELSE 0

\* print_summary: the figures printed, and the ETH and Time columns of the
\* table of the first ten transactions
print_summary(balance, price, total_in, total_out, transactions) ==
    [ balance |-> BalanceOrZero(balance),
      price |-> PriceOrZero(price),
      total_in |-> total_in,
      total_out |-> total_out,
      n |-> Len(transactions),
      rows |-> [i \in 1..Min(Len(transactions), 10) |->
                  [eth |-> wei_to_eth(Get(transactions[i], "value")),
                   time |-> parse_utc(Get(transactions[i], "timeStamp"))]] ]

\* save_csv: the rows written, one for each transaction in the order of the
\* list (the columns timeStamp, from, to and value_eth)
save_csv(transactions) ==
    [ t |-> "csv",
      rows |-> [i \in 1..Len(transactions) |->
                  [timeStamp |-> parse_utc(Get(transactions[i], "timeStamp")),
                   from |-> Get(transactions[i], "from"),
                   to |-> Get(transactions[i], "to"),
                   value_eth |-> wei_to_eth(Get(transactions[i], "value"))]] ]

\* save_json: json.dump(transactions)
save_json(transactions) == PyList(transactions)

\* main from print_summary on: the summary, then for a list that is not empty
\* the CSV file and, with --json, the JSON file.  The files are created in the
\* working directory, the storage of the cache directory: path.open("w")
\* raises where it cannot be written, and the exception leaves main.
Output ==
    /\ pc = "print"
    /\ LET summary == print_summary(results["balance"], results["price"],
                                    acc.received, acc.sent, Transactions)
       IN  IF Transactions = <<>>
           THEN /\ pc' = "done"
                /\ out' = [out EXCEPT !.summary = summary]
           ELSE IF ~fs.writable
           THEN /\ pc' = "crashed"
                /\ out' = [out EXCEPT !.summary = summary]
           ELSE /\ pc' = "done"
                /\ \E json \in BOOLEAN :
                     out' = [summary |-> summary,
                             csv |-> save_csv(Transactions),
                             json |-> IF json THEN save_json(Transactions)
                                      ELSE NotWritten]
    /\ UNCHANGED << apikey, address, count, now, ticks, runs, fs, cache, task, wire,
                    results, log, acc, fetched, peer >>

Next ==
    \/ ParseArgs
    \/ \E n \in Names : Start(n)
    \/ TxsLoadCache
    \/ \E n \in Names : Fetch(n)
    \/ \E n \in Names : Collect(n)
    \/ RunTasksReturn
    \/ SummarizeStep
    \/ SummarizeReturn
    \/ Output

\* one run of the program
Spec == Init /\ [][Next]_vars

----------------------------------------------------------------------------
(* Successive runs on the same storage: the transaction fetch of each run.    *)
(* The rest of a run reads neither the clock nor the cache and is left out.   *)

\* time passes.  A run reads the cache once and writes it at most once, the
\* read first, so every age a read can see is reached by letting the time pass
\* before the run.
Tick ==
    /\ pc = "start"
    /\ ticks < MaxTicks
    /\ \E dt \in {1, CACHE_TTL_SECONDS} : now' = now + dt
    /\ ticks' = ticks + 1
    /\ UNCHANGED << apikey, address, count, runs, fs, cache, pc, task, wire, results,
                    log, acc, fetched, out, peer >>

\* the process is over for the cache once its transaction fetch has returned;
\* the program is started again for the same address, with a count of its own
NextRun ==
    /\ task["txs"].pc = "done"
    /\ runs < MaxRuns
    /\ runs' = runs + 1
    /\ count' \in 1..MaxCount
    /\ pc' = "start"
    /\ task' = IdleTasks
    /\ results' = [n \in Names |-> NotCollected]
    /\ log' = {}
    /\ UNCHANGED << apikey, address, fs, now, ticks, cache, wire, acc, fetched, out,
                    peer >>

InitCache ==
    /\ apikey = SECRET
    /\ InitArgs

NextCache ==
    \/ Tick
    \/ ParseArgs
    \/ Start("txs")
    \/ TxsLoadCache
    \/ Fetch("txs")
    \/ NextRun

SpecCache == InitCache /\ [][NextCache]_vars

----------------------------------------------------------------------------
(* One request through the adapter's retries: a task is at its api_call, the  *)
(* other two have not started.                                                *)

InitTransport ==
    /\ apikey = SECRET
    /\ address \in Addresses
    /\ count \in 1..MaxCount
    /\ now = 0
    /\ ticks = 0
    /\ runs = 1
    /\ fs \in {f \in Storages : f.dir}
    /\ cache = [k \in CacheKeys |-> NoFile]
    /\ pc = "pool"
    /\ \E n \in Names :
         task = [m \in Names |-> IF m = n THEN TaskAt("http") ELSE TaskAt("queued")]
    /\ wire = NoWire
    /\ results = [n \in Names |-> NotCollected]
    /\ log = {}
    /\ acc = [i |-> 0, received |-> 0, sent |-> 0]
    /\ fetched = NoFetch
    /\ out = NoOutput
    /\ peer = NoPeer

NextTransport == \E n \in Names : Send(n)

SpecTransport == InitTransport /\ [][NextTransport]_vars

----------------------------------------------------------------------------
(* summarize_transactions on every transaction list of the universe below *)

AddressFields == {Absent, PyNone, PyStr("0xab"), PyStr("0xCD")}
ValueFields == {Absent, PyStr("1"), PyStr("abc")}
TimeFields == {PyStr("1")}
TxUniverse ==
    [to : AddressFields, from : AddressFields, value : ValueFields,
     timeStamp : TimeFields]

InitSum ==
    /\ apikey = SECRET
    /\ address \in Addresses
    /\ count = MaxLen
    /\ now = 0
    /\ ticks = 0
    /\ runs = 1
    /\ fs = [dir |-> TRUE, writable |-> TRUE]
    /\ cache = [k \in CacheKeys |-> NoFile]
    /\ pc = "summarize"
    /\ \E l \in SeqsUpTo(TxUniverse, MaxLen) :
         /\ task = [n \in Names |->
                      [pc |-> "done", calls |-> 1,
                       result |-> IF n = "txs" THEN PyList(l) ELSE PyNone,
                       r |-> IF n = "txs" THEN Ok(PyList(l)) ELSE Ok(PyNone)]]
         /\ results = [n \in Names |-> IF n = "txs" THEN PyList(l) ELSE PyNone]
    /\ wire = NoWire
    /\ log = {}
    /\ acc = [i |-> 1, received |-> 0, sent |-> 0]
    /\ fetched = NoFetch
    /\ out = NoOutput
    /\ peer = NoPeer

NextSum ==
    \/ SummarizeStep
    \/ SummarizeReturn

SpecSum == InitSum /\ [][NextSum]_vars

----------------------------------------------------------------------------
(* Two processes of the program on the same cache: this run's transaction     *)
(* fetch, and the save_cache of another process that has fetched a list for   *)
(* the same address, taken a file operation at a time.                        *)

\* path.open("w") at time t: the file exists and is empty until the dump
OpenedForWrite(t) == File(t, Corrupt)

\* the other process enters save_cache: path.open("w") truncates the file
PeerOpen ==
    /\ peer.pc = "idle"
    /\ fs.dir /\ fs.writable
    /\ \E l \in SeqsUpTo(TxPool, MaxTxs) : peer' = [pc |-> "opened", data |-> PyList(l)]
    /\ cache' = [cache EXCEPT ![cache_key(address)] = OpenedForWrite(now)]
    /\ fetched' = Remember("partial", cache_key(address), <<>>)
    /\ UNCHANGED << apikey, address, count, now, ticks, runs, fs, pc, task, wire,
                    results, log, acc, out >>

\* the other process's json.dump writes its list, and the file is closed
PeerDump ==
    /\ peer.pc = "opened"
    /\ peer' = [peer EXCEPT !.pc = "done"]
    /\ cache' = [cache EXCEPT ![cache_key(address)] = File(now, peer.data)]
    /\ UNCHANGED << apikey, address, count, now, ticks, runs, fs, pc, task, wire,
                    results, log, acc, fetched, out >>

\* writable storage, and no file or a complete list in the cache
InitRace ==
    /\ apikey = SECRET
    /\ InitArgs
    /\ fs = [dir |-> TRUE, writable |-> TRUE]
    /\ \A k \in CacheKeys : cache[k] = NoFile \/ IsList(cache[k].content)

NextRace ==
    \/ ParseArgs
    \/ Start("txs")
    \/ TxsLoadCache
    \/ Fetch("txs")
    \/ PeerOpen
    \/ PeerDump

SpecRace == InitRace /\ [][NextRace]_vars

----------------------------------------------------------------------------
(* Claims *)

Key == cache_key(address)
Txs == task["txs"]
Returned == pc \in {"summarize", "print", "done", "crashed"}

\* the transaction fetch returned a list without any api_call: from the cache
TxsFromCache == Txs.pc = "done" /\ Txs.calls = 0 /\ Txs.r.out = "ok"

\* C1: every entry of run_tasks' result set is None when its operation raised
\* and the value the operation returned when it did not, from the moment the
\* entry is stored on; no later completion, failed or not, changes it.
C1_IndependentResults ==
    \A n \in Names :
        results[n] # NotCollected =>
            /\ task[n].pc = "done"
            /\ task[n].r.out = "raised" => results[n] = PyNone
            /\ task[n].r.out = "ok" => results[n] = task[n].r.val

\* the price fetch failed with a provider error, the other two succeeded, and
\* run_tasks has returned
C1_Witness ==
    /\ Returned
    /\ task["price"].r.out = "raised" /\ task["price"].r.err = <<"NOTOK">>
    /\ results["price"] = PyNone
    /\ results["balance"] = Eth(2)
    /\ results["txs"].t = "list" /\ Len(results["txs"].l) = 2

\* a list returned from the cache is the one the writing fetch returned when the
\* limit is the same; the cache answers only at an age of at most the TTL; the
\* remote source is asked only when the written entry is older
C2_Hit ==
    /\ (TxsFromCache /\ fetched # NoFetch /\ fetched.key = Key /\ fetched.limit = count)
          => Txs.r.val.l = fetched.ret
    /\ TxsFromCache => now - cache[Key].mtime <= CACHE_TTL_SECONDS
    /\ (Txs.pc = "http" /\ fetched # NoFetch /\ fetched.key = Key)
          => now - cache[Key].mtime > CACHE_TTL_SECONDS

\* a step of the fetch on an entry older than the TTL leads to the remote call;
\* a list the remote call returns is written over the entry
C2_Miss ==
    /\ (Txs.pc = "cache" /\ cache[Key] # NoFile /\ Txs' # Txs
            /\ now - cache[Key].mtime > CACHE_TTL_SECONDS)
          => Txs'.pc = "http"
    /\ (Txs.pc = "http" /\ Txs'.pc = "done" /\ Txs'.r.out = "ok"
            /\ Len(Txs'.r.val.l) > 0 /\ fs.writable)
          => /\ cache'[Key] # NoFile
             /\ cache'[Key].mtime = now
             /\ \/ cache'[Key].content = Corrupt
                \/ Take(cache'[Key].content.l, count) = Txs'.r.val.l

\* C2: a transaction fetch that finds the entry an earlier fetch wrote for its
\* address, at an age of at most the TTL, makes no remote call and, asked with
\* the same limit, returns the list the earlier fetch returned; a fetch that
\* finds an entry older than the TTL goes to the remote source, and the list it
\* gets replaces the entry.
C2_CacheWithinTtl == [](C2_Hit) /\ [][C2_Miss]_vars

\* a second run is answered from the entry the first run wrote, at an age of
\* exactly the TTL
C2_Witness ==
    /\ runs = 2
    /\ TxsFromCache
    /\ fetched # NoFetch /\ fetched.key = Key /\ fetched.limit = count
    /\ Len(fetched.ret) > 0
    /\ now - cache[Key].mtime = CACHE_TTL_SECONDS

\* C3 (as claimed): the cache never answers a fetch whose limit is larger than
\* the number of transactions the entry holds.
C3_LargerLimitIsMiss == TxsFromCache => Len(cache[Key].content.l) >= count

\* C4 (as claimed): a corrupted entry is a miss; the transaction operation
\* never ends with the cache's error and the orchestrator never sees one.
C4_CorruptIsMiss ==
    /\ Txs.r.exc # "CacheError"
    /\ \A text \in log : ~Contains(text, "Failed to load cache: ")

\* C5 (as claimed): no text raised by the transport or logged by the
\* orchestrator holds the API key.
C5_NoSecretInErrors ==
    /\ \A n \in Names : ~Contains(task[n].r.err, SECRET)
    /\ \A text \in log : ~Contains(text, SECRET)

\* C6: once run_tasks has returned, each of the three operations has ended
\* and has its entry in the result set.
C6_AllSettledAtReturn ==
    Returned => \A n \in Names : task[n].pc = "done" /\ results[n] # NotCollected

\* run_tasks has returned although the transaction fetch, the last to end, failed
C6_Witness ==
    /\ pc = "summarize"
    /\ Txs.r.out = "raised"
    /\ results["txs"] = PyNone
    /\ results["balance"] # PyNone

\* the task whose request is followed
OnWire(n) == task[n].pc \in {"http", "done"}

\* C7: a request is sent at most 1 + RETRIES times; it is sent again only
\* after a network failure or a status of the force list; it ends at the first
\* other outcome, and an HTTP error ends it with the transport's error; when
\* the last allowed request fails too, the call ends with the transport's error
\* and returns no payload.
C7_BoundedRetries ==
    \A n \in Names : OnWire(n) =>
        /\ wire.attempts <= 1 + RETRIES
        /\ (task[n].pc = "http" /\ wire.attempts > 0) =>
               /\ wire.attempts <= RETRIES
               /\ \/ wire.last = NetErr
                  \/ wire.last.k = "status" /\ wire.last.code \in {429, 500, 502, 503, 504}
        /\ (task[n].pc = "done" /\ wire.last # Status(200)) =>
               /\ task[n].r.out = "raised"
               /\ task[n].r.exc = "EtherscanError"
               /\ task[n].r.err[1] = "HTTP failure | params="
        /\ (task[n].pc = "done" /\ wire.last # NoAttempt /\ wire.last.k = "neterr") =>
               wire.attempts = 1 + RETRIES
        /\ (task[n].pc = "done" /\ wire.last.k = "status"
                /\ wire.last.code \in {429, 500, 502, 503, 504}) =>
               wire.attempts = 1 + RETRIES
        /\ task[n].pc = "done" => task[n].calls = 1

\* the fourth request of a call ended in 503 and the call failed
C7_Witness ==
    \E n \in Names :
        /\ task[n].pc = "done"
        /\ wire.attempts = 1 + RETRIES
        /\ wire.last = Status(503)
        /\ task[n].r.out = "raised"

\* tx is a transfer from the address to itself
SelfTransfer(tx) ==
    /\ tx.to.t = "str" /\ Lower(tx.to.s) = Lower(address)
    /\ tx.from.t = "str" /\ Lower(tx.from.s) = Lower(address)

\* what a turn of the loop on a self-transfer does to the totals
C8_Step ==
    (pc = "summarize" /\ acc.i <= Len(Transactions) /\ SelfTransfer(Transactions[acc.i]))
        => /\ acc'.i = acc.i + 1
           /\ acc'.received = acc.received + safe_int(Get(Transactions[acc.i], "value"))
           /\ acc'.sent = acc.sent

\* C8: a turn of summarize's loop on a self-transfer adds the transaction's
\* value to the received total and leaves the sent total as it is.
C8_SelfTransferIsReceived == [][C8_Step]_vars

\* summarize has returned from a list of two self-transfers of value 1
C8_Witness ==
    /\ pc = "print"
    /\ Len(Transactions) = 2
    /\ \A i \in 1..2 : SelfTransfer(Transactions[i]) /\ Transactions[i].value = PyStr("1")
    /\ acc.received = 2
    /\ acc.sent = 0

\* a field that is a string equal to the address, case ignored
Touches(field) == field.t = "str" /\ Lower(field.s) = Lower(address)

IsReceived(tx) == Touches(tx.to)
IsSent(tx) == Touches(tx.from) /\ ~Touches(tx.to)

RECURSIVE SumReceived(_, _)
\* the sum of the values of those of the first k transactions sent to the address
SumReceived(txs, k) ==
    IF k = 0 THEN 0
    ELSE SumReceived(txs, k - 1)
         + (IF IsReceived(txs[k]) THEN safe_int(Get(txs[k], "value")) ELSE 0)

RECURSIVE SumSent(_, _)
\* the sum of the values of those of the first k sent from the address, not to it
SumSent(txs, k) ==
    IF k = 0 THEN 0
    ELSE SumSent(txs, k - 1)
         + (IF IsSent(txs[k]) THEN safe_int(Get(txs[k], "value")) ELSE 0)

\* C9 (as claimed): summarize never aborts, whatever the fields of the
\* transactions, and returns the sum of the values sent to the address and the
\* sum of those sent from it and not to it.
C9_SummarizeTotals ==
    /\ pc # "crashed"
    /\ pc = "print" =>
          /\ acc.received = SumReceived(Transactions, Len(Transactions))
          /\ acc.sent = SumSent(Transactions, Len(Transactions))

\* C10 (as claimed): a run that stops before its output has no API key and
\* has started no operation; no run with a key is aborted.
C10_OnlyConfigErrorAborts ==
    pc \in {"config_error", "crashed"} =>
        /\ apikey = NoKey
        /\ \A n \in Names : task[n].pc = "idle" /\ task[n].calls = 0

\* C11 (as claimed): no failure of the cache storage makes the transaction
\* operation fail: the operation never ends with the storage's error, and a
\* fetch whose cache write failed has still returned the list it obtained.
C11_CacheFailureSwallowed ==
    /\ Txs.r.exc # "OSError"
    /\ (\E text \in log : text[1] = "Cache write failed (") =>
          /\ Txs.pc = "done"
          /\ Txs.r.out = "ok"
          /\ IsList(Txs.r.val) /\ Len(Txs.r.val.l) <= count

\* the shape each fetch function expects of the result of its api_call
RightShape(n, result) ==
    CASE n = "balance" -> result.t = "str" /\ result.s \in NumericStrings
      [] n = "price" -> /\ result.t = "dict"
                        /\ "ethusd" \in DOMAIN result.d
                        /\ result.d["ethusd"].t = "str"
                        /\ result.d["ethusd"].s \in NumericStrings
      [] n = "txs" -> result.t = "list"

\* C12 (as claimed): a fetch operation whose api_call returned a result of the
\* wrong shape fails, and its entry of the result set is None once collected:
\* no balance, no price and no transaction list, not even an empty one.
C12_WrongShapeFails ==
    \A n \in Names :
        (/\ task[n].pc = "done"
         /\ task[n].result # NotReturned
         /\ ~RightShape(n, task[n].result))
        => /\ task[n].r.out = "raised"
           /\ results[n] \in {NotCollected, PyNone}

\* the task whose request has gone through the adapter and whose api_call is over
Called(n) == OnWire(n) /\ task[n].pc = "done"

\* the response api_call was handed is a decoded envelope of a successful request
IsEnvelope == wire.last = Status(200) /\ wire.body.k = "env"

\* C13: api_call returns a result only from a successful request whose body
\* decoded to an envelope of status "1", and the result is that envelope's;
\* for an envelope of any other status it raises EtherscanError with the
\* envelope's message ("Unknown API error" without one) and returns nothing.
C13_ResultOnlyOnStatusOne ==
    \A n \in Names :
        Called(n) =>
          /\ task[n].result # NotReturned =>
                /\ IsEnvelope
                /\ wire.body.status = PyStr("1")
                /\ task[n].result = wire.body.result
          /\ (IsEnvelope /\ wire.body.status # PyStr("1")) =>
                /\ task[n].result = NotReturned
                /\ task[n].r.out = "raised"
                /\ task[n].r.exc = "EtherscanError"
                /\ task[n].r.err = IF wire.body.message = Absent
                                   THEN <<"Unknown API error">>
                                   ELSE <<wire.body.message.s>>

\* the balance request was answered, after a retry, by a failure envelope that
\* carries a result, and the operation failed with the envelope's message
C13_Witness ==
    /\ Called("balance")
    /\ wire.attempts = 2
    /\ IsEnvelope
    /\ wire.body.status = PyStr("0")
    /\ wire.body.result = PyStr("Max rate limit reached")
    /\ task["balance"].r.err = <<"NOTOK">>
    /\ task["balance"].result = NotReturned

\* a value field that is absent or holds no integer
Malformed(v) ==
    \/ v = Absent
    \/ v.t \notin {"str", "int"}
    \/ v.t = "str" /\ v.s \notin NumericStrings

\* an address field summarize can compare: a string, or absent
Comparable(a) == a = Absent \/ a.t = "str"

\* what a turn of the loop does on a transaction of malformed value, and that
\* a turn that does not end the loop goes on to the next transaction
C14_Step ==
    (pc = "summarize" /\ acc.i <= Len(Transactions)) =>
        LET tx == Transactions[acc.i] IN
        /\ (Malformed(tx.value) /\ Comparable(tx.to) /\ Comparable(tx.from)) =>
              /\ pc' = "summarize"
              /\ acc' = [i |-> acc.i + 1, received |-> acc.received, sent |-> acc.sent]
        /\ pc' = "summarize" => acc'.i = acc.i + 1

\* C14: a turn of summarize's loop on a transaction whose value is absent or
\* not numeric raises nothing, leaves both totals as they are (the conversion
\* gives 0) and goes on to the next transaction.
C14_MalformedValueAddsZero == [][C14_Step]_vars

\* summarize has returned from a transaction of value "abc" to the address
\* followed by one of value 1 to the address: the total received is 1
C14_Witness ==
    /\ pc = "print"
    /\ address = "0xAB"
    /\ Len(Transactions) = 2
    /\ Transactions[1].to = PyStr("0xab") /\ Transactions[1].value = PyStr("abc")
    /\ Transactions[2].to = PyStr("0xab") /\ Transactions[2].value = PyStr("1")
    /\ acc = [i |-> 3, received |-> 1, sent |-> 0]

\* C15 (as claimed): the rows of the CSV file are in descending order of
\* timestamp, whatever the order of the list the fetch returned: of two
\* adjacent rows, the first has the greater or the same timestamp.
C15_CsvDescending ==
    out.csv # NotWritten =>
        \A i \in 1..(Len(out.csv.rows) - 1) :
            out.csv.rows[i].timeStamp.sec >= out.csv.rows[i + 1].timeStamp.sec

\* the run is over: main has returned or an exception has left it
Ended == pc \in {"done", "crashed"}

\* C16 (as claimed): a run that has an API key and is over has produced the
\* summary, whichever operations failed; a balance or a price that is None is
\* printed as zero, and a transaction list that is None is counted as empty.
C16_SummaryProduced ==
    (apikey # NoKey /\ Ended) =>
        /\ out.summary # NotWritten
        /\ results["balance"] = PyNone => out.summary.balance = 0
        /\ results["price"] = PyNone => out.summary.price = 0
        /\ results["txs"] = PyNone => out.summary.n = 0

\* C17 (as claimed): the list a transaction fetch with limit L has written to
\* the cache has at most L entries.
C17_EntryWithinLimit ==
    fetched # NoFetch =>
        /\ cache[fetched.key] # NoFile
        /\ IsList(cache[fetched.key].content)
        /\ Len(cache[fetched.key].content.l) <= fetched.limit

\* C18 (as claimed): while another process writes the entry of the same
\* address, the stored entry is at every point a complete list, and the
\* transaction fetch of this process never reads an entry it cannot load.
C18_AtomicReplace ==
    /\ peer.pc = "opened" =>
          /\ cache[Key] # NoFile
          /\ IsList(cache[Key].content)
    /\ Txs.r.exc # "CacheError"

\* a step that changes the cache is the end of a transaction fetch whose remote
\* call returned a list, and changes the entry of the run's address only; a
\* step of the balance or of the price operation changes neither the cache
\* nor its storage
C19_Step ==
    /\ cache' # cache =>
          /\ Txs.pc = "http" /\ Txs'.pc = "done"
          /\ Txs'.calls = Txs.calls + 1
          /\ IsList(Txs'.result)
          /\ Txs'.r.out = "ok"
          /\ \A k \in CacheKeys \ {Key} : cache'[k] = cache[k]
          /\ \A n \in {"balance", "price"} : task'[n] = task[n]
    /\ (\E n \in {"balance", "price"} : task'[n] # task[n]) =>
          /\ cache' = cache
          /\ fs' = fs

\* C19: the cache is written only at the end of a transaction fetch whose
\* remote call returned a list; a fetch whose remote call fails or returns no
\* list leaves every entry as it was, and the balance and price operations
\* leave the cache alone.
C19_CacheWrittenOnlyBySuccess == [][C19_Step]_vars

\* the three operations are over; the remote transaction call was made and
\* failed, and the entry that was there (no list, so a miss) is still there
C19_Witness ==
    /\ \A n \in Names : task[n].pc = "done"
    /\ Txs.calls = 1
    /\ Txs.r.out = "raised"
    /\ cache[Key] = File(0, PyDict(<<>>))

====
